---------------------------- MODULE Spec2Model ----------------------------
(***************************************************************************)
(* Booking admission, schedule creation, teacher authorization and the     *)
(* lecture staffing operations of the lecture-booking backend              *)
(* (src/fastapi/app/api/api_v1/endpoints/{bookings,schedules,lectures}.py).*)
(*                                                                         *)
(* The persistent state is the content of the tables the endpoints read    *)
(* and write.  Rows are kept in insertion order; the id of a row is its    *)
(* position (autoincrement primary key, no endpoint deletes lectures,      *)
(* schedules or bookings).  Every endpoint is one action, except in        *)
(* SpecRace where create_booking is split at the point where the handler   *)
(* has finished _validate_booking_data and has not yet inserted.           *)
(*                                                                         *)
(* The request and response schema classes the booking and schedule        *)
(* endpoints import (BookingItemCreate, the date/start/end form of         *)
(* ScheduleCreate) are not among the sources; requests are modelled by the *)
(* fields the handlers read, and building the response object after the    *)
(* commit is taken to succeed.                                             *)
(***************************************************************************)
EXTENDS Integers, Sequences, FiniteSets, TLC

VARIABLES
    role,              \* user_infos.role, per user id
    profiles,          \* ids that have a teacher_profiles row
    lectures,          \* lectures rows: [teacher_id, is_multi_teacher, is_deleted]
    lecture_teachers,  \* lecture_teachers rows: [lecture_id, teacher_id]
    schedules,         \* lecture_schedules rows
    bookings,          \* lecture_bookings rows
    result,            \* the last request and the response it got
    pc,                \* SpecRace: position of each concurrent create_booking
    pending_req        \* SpecRace: the request each concurrent handler holds

vars == <<role, profiles, lectures, lecture_teachers, schedules, bookings,
          result, pc, pending_req>>

db == <<role, profiles, lectures, lecture_teachers, schedules, bookings>>

-----------------------------------------------------------------------------
(* Bounds *)

MaxSlot == 2
MaxBookings == 2
MaxSchedules == 3
MaxLectures == 1
MaxAssignments == 2
MaxTick == 4

-----------------------------------------------------------------------------
(* Users.  No endpoint soft-deletes a user, so User.is_deleted == False     *)
(* holds for every row and the filter is not modelled.                      *)

Admins == {"admin"}
Teachers == {"t1", "t2", "t3", "t4"}
Students == {"s1", "s2"}
Users == Admins \cup Teachers \cup Students

NoId == "none"   \* a missing / falsy id in a request

InitRole == [u \in Users |->
                IF u \in Admins THEN "admin"
                ELSE IF u \in Teachers THEN "teacher" ELSE "student"]

-----------------------------------------------------------------------------
(* Time and date strings.  A time string "HH:MM" is the pair <<HH, MM>>, a  *)
(* date string "YYYY-MM-DD" of the model's year is the pair <<MM, DD>>.     *)
(* datetime.strptime raises ValueError outside the field ranges.            *)

ValueError == 0 - 1

\* the half-hour grid 09:00, 09:30, 10:00, ... and the malformed "24:00"
TimeStr(i) == <<9 + (i \div 2), 30 * (i % 2)>>
TimeStrs == {TimeStr(i) : i \in 0..MaxSlot} \cup {<<24, 0>>}

\* 01-01, 01-02, 01-03 and the malformed month 13
DateStrs == {<<1, 1>>, <<1, 2>>, <<1, 3>>, <<13, 1>>}

\* datetime.strptime(s, "%H:%M").time(), as minutes since midnight
ParseTime(s) ==
    IF s[1] \in 0..23 /\ s[2] \in 0..59 THEN 60 * s[1] + s[2] ELSE ValueError

\* datetime.strptime(s, "%Y-%m-%d").date(), as an order-preserving day key
ParseDate(s) ==
    IF s[1] \in 1..12 /\ s[2] \in 1..31 THEN 31 * (s[1] - 1) + s[2] ELSE ValueError

\* date.today(): the model's clock stands at 01-02
Today == ParseDate(<<1, 2>>)

-----------------------------------------------------------------------------
(* Responses.  Throughout the module the fields of a record constructor    *)
(* are written in the order in which TLC keeps them.                        *)

Resp(code, detail) == [code |-> code, detail |-> detail]
OK == Resp(200, "ok")

NoResult == [code |-> 0, detail |-> "none", op |-> "none", actor |-> NoId,
             req |-> <<>>]

Result(op, actor, req, r) ==
    [code |-> r.code, detail |-> r.detail, op |-> op, actor |-> actor,
     req |-> req]

\* db.query(Lecture).filter(Lecture.id == id, Lecture.is_deleted == False).first()
LectureFound(lects, id) == id \in DOMAIN lects /\ ~lects[id].is_deleted

\* db.query(LectureTeacher).filter(lecture_id == l, teacher_id == t).first()
HasAssignment(lts, l, t) ==
    \E i \in DOMAIN lts : lts[i].lecture_id = l /\ lts[i].teacher_id = t

-----------------------------------------------------------------------------
(* bookings.py: _validate_booking_data, create_booking, cancel_booking      *)

\* A request body of create_booking (BookingItemCreate, as the handler reads it)
BookingItem(user_id, lecture_id, teacher_id, reserved_date, start_time, end_time) ==
    [lecture_id |-> lecture_id, teacher_id |-> teacher_id, user_id |-> user_id,
     reserved_date |-> reserved_date, start_time |-> start_time,
     end_time |-> end_time]

ActiveStatuses == {"pending", "confirmed"}

\* a variant of the filter that only asks whether the new start falls inside b
OverlapFilterStartOnly(b, start_time, end_time) ==
    b.start_time <= start_time /\ b.end_time > start_time

\* a variant of the filter without its third clause
OverlapFilterTwoClauses(b, start_time, end_time) ==
    \/ (b.start_time <= start_time /\ b.end_time > start_time)
    \/ (b.start_time < end_time /\ b.end_time >= end_time)

\* the or_(...) of the conflict query: the stored row b against the candidate
OverlapFilter(b, start_time, end_time) ==
    \/ (b.start_time <= start_time /\ b.end_time > start_time)
    \/ (b.start_time < end_time /\ b.end_time >= end_time)
    \/ (b.start_time >= start_time /\ b.end_time <= end_time)

\* a variant of the conflict query that looks at pending rows only
ConflictingBookingPendingOnly(bks, item, reserved_date, start_time, end_time) ==
    \E i \in DOMAIN bks :
        /\ bks[i].user_id = item.user_id
        /\ bks[i].lecture_id = item.lecture_id
        /\ bks[i].booking_date = reserved_date
        /\ bks[i].status = "pending"
        /\ OverlapFilter(bks[i], start_time, end_time)

\* a variant of the conflict query without the user_id clause
ConflictingBookingAnyUser(bks, item, reserved_date, start_time, end_time) ==
    \E i \in DOMAIN bks :
        /\ bks[i].lecture_id = item.lecture_id
        /\ bks[i].booking_date = reserved_date
        /\ bks[i].status \in ActiveStatuses
        /\ OverlapFilter(bks[i], start_time, end_time)

\* the conflict query: is there a row that passes the whole filter
ConflictingBooking(bks, item, reserved_date, start_time, end_time) ==
    \E i \in DOMAIN bks :
        /\ bks[i].user_id = item.user_id
        /\ bks[i].lecture_id = item.lecture_id
        /\ bks[i].booking_date = reserved_date
        /\ bks[i].status \in ActiveStatuses
        /\ OverlapFilter(bks[i], start_time, end_time)

\* a variant of rule 3 that only asks for a teacher id in the request
IsValidTeacherUnchecked(lects, lts, item) == item.teacher_id # NoId

\* rule 3: the submitted teacher is the primary or has an assignment row
IsValidTeacher(lects, lts, item) ==
    \/ lects[item.lecture_id].teacher_id = item.teacher_id
    \/ HasAssignment(lts, item.lecture_id, item.teacher_id)

\* the three strptime calls of a try block all succeed
TimesParse(item) ==
    /\ ParseDate(item.reserved_date) # ValueError
    /\ ParseTime(item.start_time) # ValueError
    /\ ParseTime(item.end_time) # ValueError

Errors1(item, uid) ==
    IF item.user_id # uid THEN <<"user_id_mismatch">> ELSE <<>>

Errors23(lects, lts, item) ==
    IF ~LectureFound(lects, item.lecture_id) THEN <<"lecture_not_found">>
    ELSE IF ~IsValidTeacher(lects, lts, item) THEN <<"teacher_mismatch">>
    ELSE <<>>

Errors4(item) ==
    IF ~TimesParse(item) THEN <<"time_format_error">>
    ELSE (IF ParseTime(item.start_time) >= ParseTime(item.end_time)
             THEN <<"start_not_before_end">> ELSE <<>>)
         \o (IF ParseDate(item.reserved_date) < Today
             THEN <<"past_date">> ELSE <<>>)

Errors5(bks, item) ==
    IF ~TimesParse(item) THEN <<"conflict_check_error">>
    ELSE IF ConflictingBooking(bks, item, ParseDate(item.reserved_date),
                               ParseTime(item.start_time),
                               ParseTime(item.end_time))
         THEN <<"time_conflict">> ELSE <<>>

\* a variant that runs the conflict check before the other rules
ValidateConflictFirst(bks, lects, lts, item, uid) ==
    Errors5(bks, item) \o Errors1(item, uid) \o Errors23(lects, lts, item)
        \o Errors4(item)

\* a variant with a sixth rule: some active schedule of the lecture on the
\* date has to contain the requested interval
ValidateWithScheduleRule(bks, lects, lts, item, uid) ==
    Errors1(item, uid) \o Errors23(lects, lts, item) \o Errors4(item)
        \o Errors5(bks, item)
        \o (IF /\ TimesParse(item)
                /\ ~\E i \in DOMAIN schedules :
                       /\ ~schedules[i].is_expired
                       /\ schedules[i].lecture_id = item.lecture_id
                       /\ schedules[i].booking_date = ParseDate(item.reserved_date)
                       /\ schedules[i].start_time <= ParseTime(item.start_time)
                       /\ schedules[i].end_time >= ParseTime(item.end_time)
             THEN <<"no_schedule">> ELSE <<>>)

\* _validate_booking_data: the list of error messages, in append order
ValidateBookingData(bks, lects, lts, item, uid) ==
    Errors1(item, uid) \o Errors23(lects, lts, item) \o Errors4(item)
        \o Errors5(bks, item)

\* the row create_booking inserts
NewBooking(item) ==
    [lecture_id |-> item.lecture_id, user_id |-> item.user_id,
     start_time |-> ParseTime(item.start_time),
     end_time |-> ParseTime(item.end_time),
     booking_date |-> ParseDate(item.reserved_date),
     status |-> "pending"]

\* the response of create_booking: errors[0] as a 400, or success
CreateBookingResponse(errors) ==
    IF errors # <<>> THEN Resp(400, errors[1]) ELSE OK

create_booking(actor, item) ==
    LET errors == ValidateBookingData(bookings, lectures, lecture_teachers,
                                      item, actor)
        r == CreateBookingResponse(errors)
    IN  /\ r.code = 200 => Len(bookings) < MaxBookings
        /\ bookings' = IF r.code = 200 THEN Append(bookings, NewBooking(item))
                       ELSE bookings
        /\ result' = Result("create_booking", actor, item, r)
        /\ UNCHANGED <<role, profiles, lectures, lecture_teachers, schedules,
                       pc, pending_req>>

\* a variant of the status check that lets a confirmed booking through
CancelResponseNoConfirmedCheck(bks, booking_id, uid) ==
    IF booking_id \notin DOMAIN bks THEN Resp(404, "booking_not_found")
    ELSE IF bks[booking_id].user_id # uid THEN Resp(403, "not_own_booking")
    ELSE IF bks[booking_id].status \notin ActiveStatuses
         THEN Resp(400, "cannot_cancel_in_state")
    ELSE OK

\* a variant of the ownership check that lets an admin cancel any booking
CancelResponseAdminMayCancel(bks, booking_id, uid) ==
    IF booking_id \notin DOMAIN bks THEN Resp(404, "booking_not_found")
    ELSE IF bks[booking_id].user_id # uid /\ uid \notin Admins
         THEN Resp(403, "not_own_booking")
    ELSE IF bks[booking_id].status # "pending"
         THEN IF bks[booking_id].status = "confirmed"
              THEN Resp(400, "already_confirmed")
              ELSE Resp(400, "cannot_cancel_in_state")
    ELSE OK

\* cancel_booking up to the write: the lookups and the status check
CancelResponse(bks, booking_id, uid) ==
    IF booking_id \notin DOMAIN bks THEN Resp(404, "booking_not_found")
    ELSE IF bks[booking_id].user_id # uid THEN Resp(403, "not_own_booking")
    ELSE IF bks[booking_id].status # "pending"
         THEN IF bks[booking_id].status = "confirmed"
              THEN Resp(400, "already_confirmed")
              ELSE Resp(400, "cannot_cancel_in_state")
    ELSE OK

cancel_booking(actor, booking_id) ==
    LET r == CancelResponse(bookings, booking_id, actor)
    IN  /\ bookings' = IF r.code = 200
                       THEN [bookings EXCEPT ![booking_id].status = "cancelled"]
                       ELSE bookings
        /\ result' = Result("cancel_booking", actor, booking_id, r)
        /\ UNCHANGED <<role, profiles, lectures, lecture_teachers, schedules,
                       pc, pending_req>>

\* the approval step that turns a pending booking into a confirmed one; it is
\* performed outside the endpoints modelled here
confirm_booking(booking_id) ==
    /\ booking_id \in DOMAIN bookings
    /\ bookings[booking_id].status = "pending"
    /\ bookings' = [bookings EXCEPT ![booking_id].status = "confirmed"]
    /\ result' = Result("confirm_booking", NoId, booking_id, OK)
    /\ UNCHANGED <<role, profiles, lectures, lecture_teachers, schedules,
                   pc, pending_req>>

-----------------------------------------------------------------------------
(* SpecBooking: students book and cancel on one multi-teacher lecture whose *)
(* primary teacher is t1 and whose assigned teacher is t2.                  *)

Lecture(teacher_id, is_multi_teacher) ==
    [is_deleted |-> FALSE, teacher_id |-> teacher_id,
     is_multi_teacher |-> is_multi_teacher]

Assignment(lecture_id, teacher_id) ==
    [lecture_id |-> lecture_id, teacher_id |-> teacher_id]

NoRace == /\ pc = [p \in {1, 2} |-> "off"]
          /\ pending_req = [p \in {1, 2} |-> <<>>]

InitBooking ==
    /\ role = InitRole
    /\ profiles = Teachers
    /\ lectures = <<Lecture("t1", TRUE)>>
    /\ lecture_teachers = <<Assignment(1, "t2")>>
    /\ schedules = <<>>
    /\ bookings = <<>>
    /\ result = NoResult
    /\ NoRace

\* well-formed requests for oneself: today or tomorrow, any two grid times
SlotRequests ==
    {BookingItem(u, 1, "t1", d, TimeStr(i), TimeStr(j)) :
        u \in Students, d \in {<<1, 2>>, <<1, 3>>}, i \in 0..MaxSlot, j \in 0..MaxSlot}

NextBooking ==
    \/ \E item \in SlotRequests : create_booking(item.user_id, item)
    \/ \E actor \in Students, id \in 1..(MaxBookings + 1) : cancel_booking(actor, id)
    \/ \E id \in 1..MaxBookings : confirm_booking(id)

SpecBooking == InitBooking /\ [][NextBooking]_vars

-----------------------------------------------------------------------------
(* SpecAdmission: students submit requests that break any combination of   *)
(* the admission rules.                                                     *)

AdmissionRequests ==
    {BookingItem(u, l, t, d, se[1], se[2]) :
        u \in Students, l \in 1..(MaxLectures + 1), t \in {"t2", "t4"},
        d \in {<<1, 1>>, <<1, 2>>, <<13, 1>>},
        se \in {<<TimeStr(0), TimeStr(1)>>, <<TimeStr(0), TimeStr(MaxSlot)>>,
                <<TimeStr(1), TimeStr(1)>>, <<<<24, 0>>, TimeStr(1)>>}}

NextAdmission ==
    \E actor \in Students, item \in AdmissionRequests : create_booking(actor, item)

SpecAdmission == InitBooking /\ [][NextAdmission]_vars

-----------------------------------------------------------------------------
(* SpecCancel: two students book on the lecture of SpecBooking, and         *)
(* students, a teacher and the admin call cancel_booking on every booking.  *)

CancelRequests ==
    {BookingItem(u, 1, "t1", <<1, 2>>, TimeStr(0), TimeStr(j)) :
        u \in Students, j \in 1..MaxSlot}

CancelActors == Students \cup {"t1", "admin"}

NextCancel ==
    \/ \E item \in CancelRequests : create_booking(item.user_id, item)
    \/ \E actor \in CancelActors, id \in 1..MaxBookings :
          cancel_booking(actor, id)
    \/ \E id \in 1..MaxBookings : confirm_booking(id)

SpecCancel == InitBooking /\ [][NextCancel]_vars

-----------------------------------------------------------------------------
(* bookings.py: _check_teacher_permission, get_lecture_bookings             *)

\* a variant that admits every teacher once the lecture is found
CheckTeacherPermissionAnyTeacher(lects, lts, uid, lecture_id) ==
    IF ~LectureFound(lects, lecture_id) THEN Resp(404, "lecture_not_found")
    ELSE OK

\* _check_teacher_permission: 404 without the lecture, 403 for a teacher who
\* is neither its primary nor assigned to it
CheckTeacherPermission(lects, lts, uid, lecture_id) ==
    IF ~LectureFound(lects, lecture_id) THEN Resp(404, "lecture_not_found")
    ELSE IF lects[lecture_id].teacher_id = uid THEN OK
    ELSE IF ~HasAssignment(lts, lecture_id, uid)
         THEN Resp(403, "not_authorized_for_lecture")
    ELSE OK

\* get_lecture_bookings up to the list query
LectureBookingsResponse(rl, lects, lts, uid, lecture_id) ==
    IF rl[uid] \notin {"teacher", "admin"} THEN Resp(403, "role_not_permitted")
    ELSE IF rl[uid] = "teacher"
         THEN CheckTeacherPermission(lects, lts, uid, lecture_id)
    ELSE OK

get_lecture_bookings(actor, lecture_id) ==
    /\ result' = Result("get_lecture_bookings", actor, lecture_id,
                        LectureBookingsResponse(role, lectures, lecture_teachers,
                                                actor, lecture_id))
    /\ UNCHANGED <<db, pc, pending_req>>

-----------------------------------------------------------------------------
(* schedules.py: create_schedule                                            *)

\* A request body of create_schedule, as the handler reads it
ScheduleData(lecture_id, teacher_id, date, start, end) ==
    [lecture_id |-> lecture_id, teacher_id |-> teacher_id, date |-> date,
     start |-> start, end |-> end]

\* the role, lecture and teacher checks of create_schedule
SchedulePermission(rl, profs, lects, data, uid) ==
    IF rl[uid] \notin {"teacher", "admin"} THEN Resp(403, "role_not_permitted")
    ELSE IF ~LectureFound(lects, data.lecture_id)
         THEN Resp(404, "lecture_not_found")
    ELSE IF rl[uid] = "teacher"
         THEN IF lects[data.lecture_id].teacher_id # uid
              THEN Resp(403, "not_own_lecture")
              ELSE IF data.teacher_id # uid
                   THEN Resp(400, "teacher_id_not_self")
              ELSE OK
    ELSE IF ~(data.teacher_id \in Users /\ rl[data.teacher_id] = "teacher")
         THEN Resp(400, "teacher_not_found")
    ELSE IF data.teacher_id \notin profs
         THEN Resp(400, "teacher_profile_missing")
    ELSE OK

\* a variant without the start_time >= end_time check
ScheduleTimeChecksNoOrder(data) ==
    IF \/ ParseDate(data.date) = ValueError
       \/ ParseTime(data.start) = ValueError
       \/ ParseTime(data.end) = ValueError
    THEN Resp(400, "date_time_format_error")
    ELSE IF ParseDate(data.date) < Today THEN Resp(400, "past_date")
    ELSE OK

\* the format, order and past-date checks of create_schedule
ScheduleTimeChecks(data) ==
    IF \/ ParseDate(data.date) = ValueError
       \/ ParseTime(data.start) = ValueError
       \/ ParseTime(data.end) = ValueError
    THEN Resp(400, "date_time_format_error")
    ELSE IF ParseTime(data.start) >= ParseTime(data.end)
         THEN Resp(400, "start_not_before_end")
    ELSE IF ParseDate(data.date) < Today THEN Resp(400, "past_date")
    ELSE OK

\* the rows the existing_schedule query matches; .first() has no ORDER BY and
\* returns any one of them, or None when there is none
ExistingSchedules(scheds, lecture_id, booking_date) ==
    {i \in DOMAIN scheds :
        /\ scheds[i].lecture_id = lecture_id
        /\ scheds[i].booking_date = booking_date
        /\ ~scheds[i].is_expired}

\* a variant that only asks whether the new start falls inside existing
ScheduleOverlapsStartInside(existing, start_time, end_time) ==
    existing.start_time <= start_time /\ start_time < existing.end_time

\* not (end_time <= existing.start_time or start_time >= existing.end_time)
ScheduleOverlaps(existing, start_time, end_time) ==
    ~(end_time <= existing.start_time \/ start_time >= existing.end_time)

NewSchedule(data) ==
    [lecture_id |-> data.lecture_id,
     start_time |-> ParseTime(data.start),
     end_time |-> ParseTime(data.end),
     booking_date |-> ParseDate(data.date),
     is_expired |-> FALSE]

\* the response once the query returned the row `existing` (0 for None)
ScheduleConflictResponse(scheds, existing, data) ==
    IF existing # 0 /\ ScheduleOverlaps(scheds[existing], ParseTime(data.start),
                                        ParseTime(data.end))
    THEN Resp(400, "schedule_overlap") ELSE OK

create_schedule(actor, data) ==
    LET perm == SchedulePermission(role, profiles, lectures, data, actor)
        pre == IF perm.code # 200 THEN perm ELSE ScheduleTimeChecks(data)
        found == IF pre.code # 200 THEN {}
                 ELSE ExistingSchedules(schedules, data.lecture_id,
                                        ParseDate(data.date))
    IN  /\ \E existing \in (IF found = {} THEN {0} ELSE found) :
            LET r == IF pre.code # 200 THEN pre
                     ELSE ScheduleConflictResponse(schedules, existing, data)
            IN  /\ r.code = 200 => Len(schedules) < MaxSchedules
                /\ schedules' = IF r.code = 200
                                THEN Append(schedules, NewSchedule(data))
                                ELSE schedules
                /\ result' = Result("create_schedule", actor, data, r)
        /\ UNCHANGED <<role, profiles, lectures, lecture_teachers, bookings,
                       pc, pending_req>>

\* a schedule passes from active to expired; no endpoint modelled here does
\* that, the mechanism lies outside them
expire_schedule(id) ==
    /\ id \in DOMAIN schedules
    /\ ~schedules[id].is_expired
    /\ schedules' = [schedules EXCEPT ![id].is_expired = TRUE]
    /\ result' = Result("expire_schedule", NoId, id, OK)
    /\ UNCHANGED <<role, profiles, lectures, lecture_teachers, bookings,
                   pc, pending_req>>

-----------------------------------------------------------------------------
(* SpecSchedule: one multi-teacher lecture with primary t1 and assigned     *)
(* teachers t2 and t3; t4 is a teacher with no tie to the lecture.          *)

InitSchedule ==
    /\ role = InitRole
    /\ profiles = Teachers
    /\ lectures = <<Lecture("t1", TRUE)>>
    /\ lecture_teachers = <<Assignment(1, "t2"), Assignment(1, "t3")>>
    /\ schedules = <<>>
    /\ bookings = <<>>
    /\ result = NoResult
    /\ NoRace

\* what the primary teacher and the admin submit: every pair of grid times
\* today, and a past date, a malformed time and an unknown lecture
ScheduleDataSet ==
    {ScheduleData(1, "t1", <<1, 2>>, TimeStr(i), TimeStr(j)) :
        i \in 0..MaxSlot, j \in 0..MaxSlot}
    \cup {ScheduleData(1, "t1", <<1, 1>>, TimeStr(0), TimeStr(1)),
          ScheduleData(1, "t1", <<1, 2>>, <<24, 0>>, TimeStr(1)),
          ScheduleData(2, "t1", <<1, 2>>, TimeStr(0), TimeStr(1))}

\* a well-formed request of a user for themself
OwnScheduleData(u) == ScheduleData(1, u, <<1, 2>>, TimeStr(0), TimeStr(1))

NextSchedule ==
    \/ \E actor \in {"admin", "t1"}, data \in ScheduleDataSet :
          create_schedule(actor, data)
    \/ \E actor \in {"t2", "t3", "t4", "s1"} :
          create_schedule(actor, OwnScheduleData(actor))
    \/ \E actor \in {"admin", "t2"} :
          create_schedule(actor, OwnScheduleData("s1"))
    \/ \E actor \in Users, lecture_id \in 1..(MaxLectures + 1) :
          get_lecture_bookings(actor, lecture_id)
    \/ \E id \in 1..MaxSchedules : expire_schedule(id)

SpecSchedule == InitSchedule /\ [][NextSchedule]_vars

-----------------------------------------------------------------------------
(* lectures.py: create_lecture, change_lecture_teacher,                     *)
(* add_teacher_to_lecture, remove_teacher_from_lecture.  The last three     *)
(* take current_user from get_current_admin: the actor is an admin.         *)

\* A request body of create_lecture (LectureCreate), without title and text
LectureData(teacher_id, is_multi_teacher) ==
    [teacher_id |-> teacher_id, is_multi_teacher |-> is_multi_teacher]

\* db.query(User).filter(User.id == id, User.role == "teacher", ...).first()
TeacherFound(rl, id) == id \in Users /\ rl[id] = "teacher"

\* a variant without the multi-teacher check of the teacher branch
CreateLectureTeacherMayMulti(rl, profs, data, uid) ==
    IF rl[uid] \notin {"teacher", "admin"} THEN Resp(403, "role_not_permitted")
    ELSE IF rl[uid] = "teacher"
         THEN IF uid \notin profs THEN Resp(400, "own_profile_missing")
              ELSE IF data.teacher_id = NoId
                   THEN Resp(400, "teacher_id_required")
              ELSE IF data.teacher_id # uid
                   THEN Resp(400, "teacher_id_not_self")
              ELSE OK
    ELSE IF data.teacher_id = NoId THEN Resp(400, "teacher_id_required")
    ELSE IF ~TeacherFound(rl, data.teacher_id)
         THEN Resp(400, "teacher_not_found")
    ELSE IF data.teacher_id \notin profs
         THEN Resp(400, "teacher_profile_missing")
    ELSE OK

\* create_lecture up to the insert
CreateLectureResponse(rl, profs, data, uid) ==
    IF rl[uid] \notin {"teacher", "admin"} THEN Resp(403, "role_not_permitted")
    ELSE IF rl[uid] = "teacher"
         THEN IF uid \notin profs THEN Resp(400, "own_profile_missing")
              ELSE IF data.is_multi_teacher
                   THEN Resp(400, "teacher_cannot_create_multi")
              ELSE IF data.teacher_id = NoId
                   THEN Resp(400, "teacher_id_required")
              ELSE IF data.teacher_id # uid
                   THEN Resp(400, "teacher_id_not_self")
              ELSE OK
    ELSE IF data.teacher_id = NoId THEN Resp(400, "teacher_id_required")
    ELSE IF ~TeacherFound(rl, data.teacher_id)
         THEN Resp(400, "teacher_not_found")
    ELSE IF data.teacher_id \notin profs
         THEN Resp(400, "teacher_profile_missing")
    ELSE OK

create_lecture(actor, data) ==
    LET r == CreateLectureResponse(role, profiles, data, actor)
    IN  /\ r.code = 200 => Len(lectures) < MaxLectures
        /\ lectures' = IF r.code = 200
                       THEN Append(lectures,
                                   Lecture(data.teacher_id, data.is_multi_teacher))
                       ELSE lectures
        /\ result' = Result("create_lecture", actor, data, r)
        /\ UNCHANGED <<role, profiles, lecture_teachers, schedules, bookings,
                       pc, pending_req>>

\* a variant without the assignment check of multi-teacher lectures
ChangeTeacherNoAssignmentCheck(profs, lects, lts, lecture_id, new_teacher_id) ==
    IF ~LectureFound(lects, lecture_id) THEN Resp(404, "lecture_not_found")
    ELSE IF new_teacher_id \notin Users THEN Resp(404, "teacher_not_found")
    ELSE IF new_teacher_id \notin profs
         THEN Resp(400, "teacher_profile_missing")
    ELSE IF lects[lecture_id].teacher_id = new_teacher_id
         THEN Resp(400, "same_teacher")
    ELSE OK

\* change_lecture_teacher up to the write.  The current primary teacher is
\* always an existing user, so the 500 "current teacher not found" branch is
\* never taken.
ChangeTeacherResponse(profs, lects, lts, lecture_id, new_teacher_id) ==
    IF ~LectureFound(lects, lecture_id) THEN Resp(404, "lecture_not_found")
    ELSE IF /\ lects[lecture_id].is_multi_teacher
            /\ ~HasAssignment(lts, lecture_id, new_teacher_id)
         THEN Resp(400, "add_teacher_first")
    ELSE IF new_teacher_id \notin Users THEN Resp(404, "teacher_not_found")
    ELSE IF new_teacher_id \notin profs
         THEN Resp(400, "teacher_profile_missing")
    ELSE IF lects[lecture_id].teacher_id = new_teacher_id
         THEN Resp(400, "same_teacher")
    ELSE OK

\* a variant that assigns the new teacher before the profile check and keeps
\* the assignment when that check fails
ChangeTeacherWriteEarly(lects, lecture_id, new_teacher_id, r) ==
    IF r.code = 200 \/ r.detail = "teacher_profile_missing"
    THEN [lects EXCEPT ![lecture_id].teacher_id = new_teacher_id]
    ELSE lects

\* a variant that also clears the multi-teacher flag of the lecture
ChangeTeacherWriteClearsFlag(lects, lecture_id, new_teacher_id, r) ==
    IF r.code = 200
    THEN [lects EXCEPT ![lecture_id].teacher_id = new_teacher_id,
                       ![lecture_id].is_multi_teacher = FALSE]
    ELSE lects

\* the lectures table after change_lecture_teacher answered r: the
\* assignment to lecture.teacher_id is committed only when nothing was raised
ChangeTeacherWrite(lects, lecture_id, new_teacher_id, r) ==
    IF r.code = 200
    THEN [lects EXCEPT ![lecture_id].teacher_id = new_teacher_id]
    ELSE lects

change_lecture_teacher(actor, lecture_id, new_teacher_id) ==
    LET r == ChangeTeacherResponse(profiles, lectures, lecture_teachers,
                                   lecture_id, new_teacher_id)
    IN  /\ lectures' = ChangeTeacherWrite(lectures, lecture_id, new_teacher_id, r)
        /\ result' = Result("change_lecture_teacher", actor,
                            <<lecture_id, new_teacher_id>>, r)
        /\ UNCHANGED <<role, profiles, lecture_teachers, schedules, bookings,
                       pc, pending_req>>

\* a variant without the is_multi_teacher check
AddTeacherAnyLecture(rl, profs, lects, lts, lecture_id, teacher_id) ==
    IF ~LectureFound(lects, lecture_id) THEN Resp(404, "lecture_not_found")
    ELSE IF ~TeacherFound(rl, teacher_id) THEN Resp(404, "teacher_not_found")
    ELSE IF teacher_id \notin profs THEN Resp(400, "teacher_profile_missing")
    ELSE IF HasAssignment(lts, lecture_id, teacher_id)
         THEN Resp(400, "already_assigned")
    ELSE OK

\* a variant without the lookup of an existing row
AddTeacherNoDuplicateCheck(rl, profs, lects, lts, lecture_id, teacher_id) ==
    IF ~LectureFound(lects, lecture_id) THEN Resp(404, "lecture_not_found")
    ELSE IF ~lects[lecture_id].is_multi_teacher
         THEN Resp(400, "not_multi_teacher")
    ELSE IF ~TeacherFound(rl, teacher_id) THEN Resp(404, "teacher_not_found")
    ELSE IF teacher_id \notin profs THEN Resp(400, "teacher_profile_missing")
    ELSE OK

\* add_teacher_to_lecture up to the insert
AddTeacherResponse(rl, profs, lects, lts, lecture_id, teacher_id) ==
    IF ~LectureFound(lects, lecture_id) THEN Resp(404, "lecture_not_found")
    ELSE IF ~lects[lecture_id].is_multi_teacher
         THEN Resp(400, "not_multi_teacher")
    ELSE IF ~TeacherFound(rl, teacher_id) THEN Resp(404, "teacher_not_found")
    ELSE IF teacher_id \notin profs THEN Resp(400, "teacher_profile_missing")
    ELSE IF HasAssignment(lts, lecture_id, teacher_id)
         THEN Resp(400, "already_assigned")
    ELSE OK

add_teacher_to_lecture(actor, lecture_id, teacher_id) ==
    LET r == AddTeacherResponse(role, profiles, lectures, lecture_teachers,
                                lecture_id, teacher_id)
    IN  /\ r.code = 200 => Len(lecture_teachers) < MaxAssignments
        /\ lecture_teachers' =
              IF r.code = 200
              THEN Append(lecture_teachers, Assignment(lecture_id, teacher_id))
              ELSE lecture_teachers
        /\ result' = Result("add_teacher_to_lecture", actor,
                            <<lecture_id, teacher_id>>, r)
        /\ UNCHANGED <<role, profiles, lectures, schedules, bookings,
                       pc, pending_req>>

\* a variant without the comparison with lecture.teacher_id
RemoveTeacherNoPrimaryCheck(lects, lts, lecture_id, teacher_id) ==
    IF ~LectureFound(lects, lecture_id) THEN Resp(404, "lecture_not_found")
    ELSE IF ~lects[lecture_id].is_multi_teacher
         THEN Resp(400, "not_multi_teacher")
    ELSE IF ~HasAssignment(lts, lecture_id, teacher_id)
         THEN Resp(404, "not_assigned")
    ELSE OK

\* remove_teacher_from_lecture up to the delete
RemoveTeacherResponse(lects, lts, lecture_id, teacher_id) ==
    IF ~LectureFound(lects, lecture_id) THEN Resp(404, "lecture_not_found")
    ELSE IF ~lects[lecture_id].is_multi_teacher
         THEN Resp(400, "not_multi_teacher")
    ELSE IF teacher_id = lects[lecture_id].teacher_id
         THEN Resp(400, "primary_cannot_be_removed")
    ELSE IF ~HasAssignment(lts, lecture_id, teacher_id)
         THEN Resp(404, "not_assigned")
    ELSE OK

\* the sequence without its i-th row
RemoveAt(s, i) == [k \in 1..(Len(s) - 1) |-> IF k < i THEN s[k] ELSE s[k + 1]]

remove_teacher_from_lecture(actor, lecture_id, teacher_id) ==
    LET r == RemoveTeacherResponse(lectures, lecture_teachers, lecture_id,
                                   teacher_id)
        rows == {i \in DOMAIN lecture_teachers :
                    /\ lecture_teachers[i].lecture_id = lecture_id
                    /\ lecture_teachers[i].teacher_id = teacher_id}
    IN  /\ IF r.code = 200
           THEN \E i \in rows : lecture_teachers' = RemoveAt(lecture_teachers, i)
           ELSE lecture_teachers' = lecture_teachers
        /\ result' = Result("remove_teacher_from_lecture", actor,
                            <<lecture_id, teacher_id>>, r)
        /\ UNCHANGED <<role, profiles, lectures, schedules, bookings,
                       pc, pending_req>>

-----------------------------------------------------------------------------
(* SpecAll: every operation, from the empty tables.  t1 and t2 are teachers *)
(* with a profile, t3 and t4 hold the teacher role without one.             *)

InitAll ==
    /\ role = InitRole
    /\ profiles = {"t1", "t2"}
    /\ lectures = <<>>
    /\ lecture_teachers = <<>>
    /\ schedules = <<>>
    /\ bookings = <<>>
    /\ result = NoResult
    /\ NoRace

LectureIds == 1..(MaxLectures + 1)

NextAll ==
    \/ \E actor \in {"admin", "t1", "t3", "s1"},
          teacher_id \in {"t1", "t3", "s1", NoId}, multi \in BOOLEAN :
          create_lecture(actor, LectureData(teacher_id, multi))
    \/ \E l \in LectureIds, teacher_id \in {"t1", "t2", "t3"} :
          change_lecture_teacher("admin", l, teacher_id)
    \/ \E l \in LectureIds, teacher_id \in {"t1", "t2", "t3", "s1"} :
          add_teacher_to_lecture("admin", l, teacher_id)
    \/ \E l \in LectureIds, teacher_id \in {"t1", "t2", "t3"} :
          remove_teacher_from_lecture("admin", l, teacher_id)
    \/ \E actor \in {"t1", "t2", "s1"}, l \in LectureIds :
          create_schedule(actor, ScheduleData(l, actor, <<1, 2>>, TimeStr(0),
                                              TimeStr(1)))
    \/ \E se \in {<<TimeStr(0), TimeStr(1)>>, <<TimeStr(1), TimeStr(0)>>} :
          create_schedule("admin", ScheduleData(1, "t2", <<1, 2>>, se[1], se[2]))
    \/ \E u \in Students, l \in LectureIds, teacher_id \in {"t1", "t2", "t3"} :
          create_booking("s1", BookingItem(u, l, teacher_id, <<1, 2>>,
                                           TimeStr(0), TimeStr(1)))
    \/ \E actor \in Students, id \in 1..MaxBookings : cancel_booking(actor, id)
    \/ \E actor \in {"admin", "t1", "t2", "s1"}, l \in LectureIds :
          get_lecture_bookings(actor, l)

SpecAll == InitAll /\ [][NextAll]_vars

-----------------------------------------------------------------------------
(* users.py: update_user_role (current_user from get_current_admin)         *)

\* the roles the endpoints compare User.role with, as values of a request
RoleValues == {"student", "teacher"}

\* update_user_role up to the write
UpdateRoleResponse(rl, uid, user_id, new_role) ==
    IF user_id \notin Users THEN Resp(404, "user_not_found")
    ELSE IF user_id = uid THEN Resp(400, "cannot_change_own_role")
    ELSE IF rl[user_id] = new_role THEN Resp(400, "role_already_set")
    ELSE OK

\* the role is written, and a teacher_profiles row is added when the new role
\* is teacher and the user has none; no branch deletes a profile row
update_user_role(actor, user_id, new_role) ==
    LET r == UpdateRoleResponse(role, actor, user_id, new_role)
    IN  /\ role' = IF r.code = 200 THEN [role EXCEPT ![user_id] = new_role]
                   ELSE role
        /\ profiles' = IF r.code = 200 /\ new_role = "teacher"
                       THEN profiles \cup {user_id} ELSE profiles
        /\ result' = Result("update_user_role", actor, <<user_id, new_role>>, r)
        /\ UNCHANGED <<lectures, lecture_teachers, schedules, bookings,
                       pc, pending_req>>

-----------------------------------------------------------------------------
(* SpecStaff: the admin creates a lecture, changes roles of t2 and s1 and   *)
(* changes the lecture's teacher.                                           *)

NextStaff ==
    \/ \E multi \in BOOLEAN :
          create_lecture("admin", LectureData("t1", multi))
    \/ \E user_id \in {"t2", "s1", "admin", NoId}, new_role \in RoleValues :
          update_user_role("admin", user_id, new_role)
    \/ \E l \in LectureIds, teacher_id \in {"t1", "t2", "s1", "admin"} :
          change_lecture_teacher("admin", l, teacher_id)
    \/ \E teacher_id \in {"t2", "s1"} :
          add_teacher_to_lecture("admin", 1, teacher_id)

SpecStaff == InitAll /\ [][NextStaff]_vars

-----------------------------------------------------------------------------
(* SpecRace: two create_booking handlers run at once.  A handler reads in   *)
(* _validate_booking_data and writes at db.add/db.commit; nothing in the    *)
(* handler keeps another request from running between the two.              *)

Procs == {1, 2}

\* the handler up to `if errors:`; a request with errors is answered at once
create_booking_validate(p, item) ==
    LET errors == ValidateBookingData(bookings, lectures, lecture_teachers,
                                      item, item.user_id)
        inflight == Cardinality({q \in Procs : pc[q] = "validated"})
    IN  /\ pc[p] = "idle"
        /\ IF errors # <<>>
           THEN /\ result' = Result("create_booking", item.user_id, item,
                                    CreateBookingResponse(errors))
                /\ UNCHANGED <<pc, pending_req>>
           ELSE /\ Len(bookings) + inflight < MaxBookings
                /\ pc' = [pc EXCEPT ![p] = "validated"]
                /\ pending_req' = [pending_req EXCEPT ![p] = item]
                /\ UNCHANGED result
        /\ UNCHANGED db

\* the rest of the handler: db.add(new_booking); db.commit()
create_booking_insert(p) ==
    /\ pc[p] = "validated"
    /\ bookings' = Append(bookings, NewBooking(pending_req[p]))
    /\ result' = Result("create_booking", pending_req[p].user_id,
                        pending_req[p], OK)
    /\ pc' = [pc EXCEPT ![p] = "idle"]
    /\ pending_req' = [pending_req EXCEPT ![p] = <<>>]
    /\ UNCHANGED <<role, profiles, lectures, lecture_teachers, schedules>>

InitRace ==
    /\ role = InitRole
    /\ profiles = Teachers
    /\ lectures = <<Lecture("t1", TRUE)>>
    /\ lecture_teachers = <<Assignment(1, "t2")>>
    /\ schedules = <<>>
    /\ bookings = <<>>
    /\ result = NoResult
    /\ pc = [p \in Procs |-> "idle"]
    /\ pending_req = [p \in Procs |-> <<>>]

RaceRequests ==
    {BookingItem("s1", 1, "t1", <<1, 2>>, TimeStr(i), TimeStr(j)) :
        i \in 0..MaxSlot, j \in 0..MaxSlot}

NextRace ==
    \/ \E p \in Procs, item \in RaceRequests : create_booking_validate(p, item)
    \/ \E p \in Procs : create_booking_insert(p)

SpecRace == InitRace /\ [][NextRace]_vars

-----------------------------------------------------------------------------
(* SpecStaffRace: remove_teacher_from_lecture (process 1) and               *)
(* change_lecture_teacher (process 2) run at once on the multi-teacher      *)
(* lecture 1.  Each handler reads up to its last check and writes at its    *)
(* commit; nothing in either handler keeps the other from running between.  *)

\* remove_teacher_from_lecture up to `if not lecture_teacher:`
remove_teacher_read(lecture_id, teacher_id) ==
    LET r == RemoveTeacherResponse(lectures, lecture_teachers, lecture_id,
                                   teacher_id)
    IN  /\ pc[1] = "idle"
        /\ IF r.code # 200
           THEN /\ result' = Result("remove_teacher_from_lecture", "admin",
                                    <<lecture_id, teacher_id>>, r)
                /\ UNCHANGED <<pc, pending_req>>
           ELSE /\ pc' = [pc EXCEPT ![1] = "checked"]
                /\ pending_req' = [pending_req EXCEPT
                                      ![1] = <<lecture_id, teacher_id>>]
                /\ UNCHANGED result
        /\ UNCHANGED db

\* db.delete(lecture_teacher); db.commit() of the row the handler holds
remove_teacher_commit ==
    LET rows == {i \in DOMAIN lecture_teachers :
                    /\ lecture_teachers[i].lecture_id = pending_req[1][1]
                    /\ lecture_teachers[i].teacher_id = pending_req[1][2]}
    IN  /\ pc[1] = "checked"
        /\ \E i \in rows : lecture_teachers' = RemoveAt(lecture_teachers, i)
        /\ result' = Result("remove_teacher_from_lecture", "admin",
                            pending_req[1], OK)
        /\ pc' = [pc EXCEPT ![1] = "idle"]
        /\ pending_req' = [pending_req EXCEPT ![1] = <<>>]
        /\ UNCHANGED <<role, profiles, lectures, schedules, bookings>>

\* change_lecture_teacher up to the same-teacher comparison
change_teacher_read(lecture_id, new_teacher_id) ==
    LET r == ChangeTeacherResponse(profiles, lectures, lecture_teachers,
                                   lecture_id, new_teacher_id)
    IN  /\ pc[2] = "idle"
        /\ IF r.code # 200
           THEN /\ result' = Result("change_lecture_teacher", "admin",
                                    <<lecture_id, new_teacher_id>>, r)
                /\ UNCHANGED <<pc, pending_req>>
           ELSE /\ pc' = [pc EXCEPT ![2] = "checked"]
                /\ pending_req' = [pending_req EXCEPT
                                      ![2] = <<lecture_id, new_teacher_id>>]
                /\ UNCHANGED result
        /\ UNCHANGED db

\* lecture.teacher_id = new_teacher_id; db.commit()
change_teacher_commit ==
    /\ pc[2] = "checked"
    /\ lectures' = ChangeTeacherWrite(lectures, pending_req[2][1],
                                      pending_req[2][2], OK)
    /\ result' = Result("change_lecture_teacher", "admin", pending_req[2], OK)
    /\ pc' = [pc EXCEPT ![2] = "idle"]
    /\ pending_req' = [pending_req EXCEPT ![2] = <<>>]
    /\ UNCHANGED <<role, profiles, lecture_teachers, schedules, bookings>>

\* lecture 1 is multi-teacher with primary t1; t2 and t3 have profiles
InitStaffRace ==
    /\ role = InitRole
    /\ profiles = Teachers
    /\ lectures = <<Lecture("t1", TRUE)>>
    /\ lecture_teachers = <<>>
    /\ schedules = <<>>
    /\ bookings = <<>>
    /\ result = NoResult
    /\ pc = [p \in Procs |-> "idle"]
    /\ pending_req = [p \in Procs |-> <<>>]

NextStaffRace ==
    \/ \E teacher_id \in {"t1", "t2", "t3"} :
          remove_teacher_read(1, teacher_id)
    \/ remove_teacher_commit
    \/ \E teacher_id \in {"t1", "t2", "t3"} :
          change_teacher_read(1, teacher_id)
    \/ change_teacher_commit
    \/ \E teacher_id \in {"t2", "t3"} :
          add_teacher_to_lecture("admin", 1, teacher_id)

SpecStaffRace == InitStaffRace /\ [][NextStaffRace]_vars

-----------------------------------------------------------------------------
(* SpecTouch: student s1 books and teacher t1 creates schedules on the      *)
(* lecture of SpecBooking, today, on the intervals 09:00-10:00,             *)
(* 09:00-10:30, 10:00-11:00 and 11:00-11:30.                                *)

TouchIntervals ==
    {<<TimeStr(0), TimeStr(2)>>, <<TimeStr(0), TimeStr(3)>>,
     <<TimeStr(2), TimeStr(4)>>, <<TimeStr(4), TimeStr(5)>>}

NextTouch ==
    \/ \E iv \in TouchIntervals :
          create_booking("s1", BookingItem("s1", 1, "t1", <<1, 2>>, iv[1], iv[2]))
    \/ \E iv \in TouchIntervals :
          create_schedule("t1", ScheduleData(1, "t1", <<1, 2>>, iv[1], iv[2]))

SpecTouch == InitBooking /\ [][NextTouch]_vars

-----------------------------------------------------------------------------
(* SpecAssign: the admin has created the single-teacher lecture 1 and the   *)
(* multi-teacher lecture 2, both with primary t1, and adds, removes and     *)
(* promotes teachers on them; teachers ask for the booking list and the     *)
(* student s1 books.  t1, t2 and t3 have profiles.                          *)

InitAssign ==
    /\ role = InitRole
    /\ profiles = {"t1", "t2", "t3"}
    /\ lectures = <<Lecture("t1", FALSE), Lecture("t1", TRUE)>>
    /\ lecture_teachers = <<>>
    /\ schedules = <<>>
    /\ bookings = <<>>
    /\ result = NoResult
    /\ NoRace

AssignLectureIds == {1, 2}

NextAssign ==
    \/ \E l \in AssignLectureIds, teacher_id \in {"t1", "t2", "t3"} :
          add_teacher_to_lecture("admin", l, teacher_id)
    \/ \E l \in AssignLectureIds, teacher_id \in {"t1", "t2", "t3"} :
          remove_teacher_from_lecture("admin", l, teacher_id)
    \/ \E l \in AssignLectureIds, teacher_id \in {"t1", "t2"} :
          change_lecture_teacher("admin", l, teacher_id)
    \/ \E l \in AssignLectureIds, actor \in {"t1", "t2"} :
          get_lecture_bookings(actor, l)
    \/ \E l \in AssignLectureIds, teacher_id \in {"t1", "t2"} :
          create_booking("s1", BookingItem("s1", l, teacher_id, <<1, 2>>,
                                           TimeStr(0), TimeStr(1)))

SpecAssign == InitAssign /\ [][NextAssign]_vars

-----------------------------------------------------------------------------
(* SpecOverlap: the two overlap tests of the endpoints as functions of a    *)
(* stored interval and a candidate interval, on every pair of pairs of      *)
(* times 0..MaxTick (degenerate and reversed pairs included).               *)

Ticks == 0..MaxTick

\* a stored row as far as the overlap tests read it
StoredInterval(start_time, end_time) ==
    [start_time |-> start_time, end_time |-> end_time]

Verdict(conflict) == Resp(200, IF conflict THEN "conflict" ELSE "no_conflict")

\* the or_(...) filter of _validate_booking_data on one stored row
conflict_filter(es, ee, s, e) ==
    /\ result' = Result("conflict_filter", NoId, <<es, ee, s, e>>,
                        Verdict(OverlapFilter(StoredInterval(es, ee), s, e)))
    /\ UNCHANGED <<db, pc, pending_req>>

\* the overlap test of create_schedule on the row the lookup returned
schedule_overlap_test(es, ee, s, e) ==
    /\ result' = Result("schedule_overlap_test", NoId, <<es, ee, s, e>>,
                        Verdict(ScheduleOverlaps(StoredInterval(es, ee), s, e)))
    /\ UNCHANGED <<db, pc, pending_req>>

NextOverlap ==
    \/ \E es, ee, s, e \in Ticks : conflict_filter(es, ee, s, e)
    \/ \E es, ee, s, e \in Ticks : schedule_overlap_test(es, ee, s, e)

SpecOverlap == InitAll /\ [][NextOverlap]_vars

-----------------------------------------------------------------------------
(* Properties of booking admission and of the booking lifecycle             *)

\* half-open intervals [s1,e1) and [s2,e2) overlap
Overlaps(s1, e1, s2, e2) == s1 < e2 /\ s2 < e1

SameUserLectureDate(a, b) ==
    /\ a.user_id = b.user_id
    /\ a.lecture_id = b.lecture_id
    /\ a.booking_date = b.booking_date

\* C1: no user holds two distinct pending/confirmed bookings on the same
\* lecture and date whose [start,end) intervals overlap.
C1_NoOverlappingActiveBookings ==
    \A i, j \in DOMAIN bookings :
        (/\ i # j
         /\ SameUserLectureDate(bookings[i], bookings[j])
         /\ bookings[i].status \in ActiveStatuses
         /\ bookings[j].status \in ActiveStatuses)
        => ~Overlaps(bookings[i].start_time, bookings[i].end_time,
                     bookings[j].start_time, bookings[j].end_time)

\* a user holds a confirmed and a pending booking on one lecture and date
C1_Witness ==
    \E i, j \in DOMAIN bookings :
        /\ i # j
        /\ SameUserLectureDate(bookings[i], bookings[j])
        /\ bookings[i].status = "confirmed"
        /\ bookings[j].status = "pending"

\* The admission rules 1..5 as the specification states them, evaluated on
\* the stored state
ViolatedRules(bks, lects, lts, item, actor) ==
    LET found == LectureFound(lects, item.lecture_id)
        d == ParseDate(item.reserved_date)
        s == ParseTime(item.start_time)
        e == ParseTime(item.end_time)
        parsed == d # ValueError /\ s # ValueError /\ e # ValueError
    IN  {n \in 1..5 :
           \/ n = 1 /\ item.user_id # actor
           \/ n = 2 /\ ~found
           \/ n = 3 /\ found
                    /\ lects[item.lecture_id].teacher_id # item.teacher_id
                    /\ ~HasAssignment(lts, item.lecture_id, item.teacher_id)
           \/ n = 4 /\ (~parsed \/ s >= e \/ d < Today)
           \/ n = 5 /\ parsed
                    /\ \E i \in DOMAIN bks :
                          /\ bks[i].user_id = item.user_id
                          /\ bks[i].lecture_id = item.lecture_id
                          /\ bks[i].booking_date = d
                          /\ bks[i].status \in ActiveStatuses
                          /\ Overlaps(bks[i].start_time, bks[i].end_time, s, e)}

\* the rule a reason belongs to
RuleOfReason(detail) ==
    CASE detail = "user_id_mismatch" -> 1
      [] detail = "lecture_not_found" -> 2
      [] detail = "teacher_mismatch" -> 3
      [] detail \in {"time_format_error", "start_not_before_end", "past_date"} -> 4
      [] detail \in {"time_conflict", "conflict_check_error"} -> 5
      [] OTHER -> 0

Least(S) == CHOOSE n \in S : \A m \in S : n <= m

\* C6: a create_booking request is admitted exactly when it violates no rule,
\* and a rejected one is told the reason of the first rule it violates in the
\* order 1, 2, 3, 4, 5.
C6_FirstViolatedRuleReported ==
    [][result'.op = "create_booking" =>
        LET V == ViolatedRules(bookings, lectures, lecture_teachers,
                               result'.req, result'.actor)
        IN  /\ (V = {}) <=> (result'.code = 200)
            /\ V # {} => /\ result'.code = 400
                         /\ RuleOfReason(result'.detail) = Least(V)]_vars

\* a rejected request that violates rules 1, 3, 4 and 5 at once
C6_Witness ==
    /\ result.op = "create_booking"
    /\ result.code = 400
    /\ ViolatedRules(bookings, lectures, lecture_teachers, result.req,
                     result.actor) = {1, 3, 4, 5}

\* C9: cancel_booking by the booking's own user on a confirmed booking fails
\* with the "already confirmed" error and the booking stays confirmed.
C9_CancelConfirmedFails ==
    [][\A id \in DOMAIN bookings :
        (/\ bookings[id].status = "confirmed"
         /\ result'.op = "cancel_booking"
         /\ result'.req = id
         /\ result'.actor = bookings[id].user_id)
        => /\ result'.code = 400
           /\ result'.detail = "already_confirmed"
           /\ bookings'[id].status = "confirmed"]_vars

\* the owner has just tried to cancel a confirmed booking
C9_Witness ==
    /\ result.op = "cancel_booking"
    /\ result.detail = "already_confirmed"
    /\ bookings[result.req].status = "confirmed"
    /\ bookings[result.req].user_id = result.actor

\* a status changes only from pending to cancelled, by cancel_booking on that
\* booking, and cancelled and confirmed are final
StatusChangesOnlyByCancel(id) ==
    /\ (result'.op \in {"create_booking", "cancel_booking"}
        /\ bookings'[id].status # bookings[id].status)
       => /\ bookings[id].status = "pending"
          /\ bookings'[id].status = "cancelled"
          /\ result'.op = "cancel_booking"
          /\ result'.req = id
    /\ bookings[id].status \in {"cancelled", "confirmed"}
       => bookings'[id].status = bookings[id].status

\* C10 as stated: statuses change only by pending -> cancelled through
\* cancel_booking, cancelled and confirmed are final, and cancel_booking on a
\* booking that is neither pending nor confirmed fails with the generic
\* "cannot cancel in this state" error, whoever calls it.
C10_Original ==
    [][\A id \in DOMAIN bookings :
        /\ StatusChangesOnlyByCancel(id)
        /\ (/\ result'.op = "cancel_booking"
            /\ result'.req = id
            /\ bookings[id].status \notin ActiveStatuses)
           => /\ result'.code = 400
              /\ result'.detail = "cannot_cancel_in_state"]_vars

\* C10 amended: the generic error is what the booking's own user gets.
C10_TerminalStatuses ==
    [][\A id \in DOMAIN bookings :
        /\ StatusChangesOnlyByCancel(id)
        /\ (/\ result'.op = "cancel_booking"
            /\ result'.req = id
            /\ result'.actor = bookings[id].user_id
            /\ bookings[id].status \notin ActiveStatuses)
           => /\ result'.code = 400
              /\ result'.detail = "cannot_cancel_in_state"]_vars

\* the owner has just tried to cancel a booking that was already cancelled
C10_Witness ==
    /\ result.op = "cancel_booking"
    /\ result.detail = "cannot_cancel_in_state"
    /\ bookings[result.req].status = "cancelled"
    /\ bookings[result.req].user_id = result.actor

-----------------------------------------------------------------------------
(* Properties of schedules, authorization and lecture staffing             *)

\* C2: of two concurrent create_booking requests of one user for the same
\* lecture and date with overlapping intervals at most one is admitted: no
\* two overlapping pending bookings of that user on that lecture exist.
C2_AtMostOneAdmitted ==
    \A i, j \in DOMAIN bookings :
        (/\ i # j
         /\ SameUserLectureDate(bookings[i], bookings[j])
         /\ bookings[i].status = "pending"
         /\ bookings[j].status = "pending")
        => ~Overlaps(bookings[i].start_time, bookings[i].end_time,
                     bookings[j].start_time, bookings[j].end_time)

\* C3: no two distinct non-expired schedules of one lecture on one date have
\* overlapping [start,end) intervals.
C3_NoOverlappingActiveSchedules ==
    \A i, j \in DOMAIN schedules :
        (/\ i # j
         /\ schedules[i].lecture_id = schedules[j].lecture_id
         /\ schedules[i].booking_date = schedules[j].booking_date
         /\ ~schedules[i].is_expired
         /\ ~schedules[j].is_expired)
        => ~Overlaps(schedules[i].start_time, schedules[i].end_time,
                     schedules[j].start_time, schedules[j].end_time)

\* the decision of the authorization resolver for a user on a lecture
Authorized(uid, lecture_id) ==
    \/ role[uid] = "admin"
    \/ /\ role[uid] = "teacher"
       /\ \/ lectures[lecture_id].teacher_id = uid
          \/ /\ lectures[lecture_id].is_multi_teacher
             /\ HasAssignment(lecture_teachers, lecture_id, uid)

\* the lecture a create_schedule or get_lecture_bookings request names
RequestLecture ==
    IF result.op = "create_schedule" THEN result.req.lecture_id ELSE result.req

\* C4: on a multi-teacher lecture, create_schedule and get_lecture_bookings
\* do not refuse the primary teacher, an assigned teacher or an admin as
\* forbidden, and they refuse every other teacher as forbidden.
C4_ResolverAuthorizes ==
    (/\ result.op \in {"create_schedule", "get_lecture_bookings"}
     /\ role[result.actor] \in {"teacher", "admin"}
     /\ LectureFound(lectures, RequestLecture)
     /\ lectures[RequestLecture].is_multi_teacher)
    => (Authorized(result.actor, RequestLecture) <=> result.code # 403)

\* the request is a well-formed slot on a date that is not past
WellFormedSlot(date, start, end) ==
    /\ ParseDate(date) # ValueError
    /\ ParseTime(start) # ValueError
    /\ ParseTime(end) # ValueError
    /\ ParseTime(start) < ParseTime(end)
    /\ ParseDate(date) >= Today

\* C5: on a multi-teacher lecture an assigned teacher's create_schedule for
\* themself on a free, well-formed slot succeeds, and so does a student's
\* create_booking of that slot with the assigned teacher's id, which leaves
\* a pending booking of that student.
C5_EndToEndSucceeds ==
    [][/\ (/\ result'.op = "create_schedule"
           /\ role[result'.actor] = "teacher"
           /\ result'.req.teacher_id = result'.actor
           /\ LectureFound(lectures, result'.req.lecture_id)
           /\ lectures[result'.req.lecture_id].is_multi_teacher
           /\ HasAssignment(lecture_teachers, result'.req.lecture_id,
                            result'.actor)
           /\ WellFormedSlot(result'.req.date, result'.req.start,
                             result'.req.end)
           /\ schedules = <<>>)
          => result'.code = 200
       /\ (/\ result'.op = "create_booking"
           /\ result'.req.user_id = result'.actor
           /\ LectureFound(lectures, result'.req.lecture_id)
           /\ lectures[result'.req.lecture_id].is_multi_teacher
           /\ HasAssignment(lecture_teachers, result'.req.lecture_id,
                            result'.req.teacher_id)
           /\ WellFormedSlot(result'.req.reserved_date, result'.req.start_time,
                             result'.req.end_time)
           /\ bookings = <<>>)
          => /\ result'.code = 200
             /\ bookings' = <<NewBooking(result'.req)>>]_vars

MutatingOps ==
    {"create_booking", "cancel_booking", "create_schedule", "create_lecture",
     "change_lecture_teacher", "add_teacher_to_lecture",
     "remove_teacher_from_lecture"}

C8_PrimaryHasNoAssignmentRow ==
    \A l \in DOMAIN lectures :
        ~HasAssignment(lecture_teachers, l, lectures[l].teacher_id)

-----------------------------------------------------------------------------
(* Properties of cancellation, repeated booking and lecture staffing       *)

\* C11: cancel_booking called by a user other than the booking's own user is
\* answered 403 and leaves every booking as it was, whatever the booking's
\* status; a cancel_booking step changes a status only for the owner.
C11_OnlyOwnerCancels ==
    [][result'.op = "cancel_booking" =>
          /\ (/\ result'.req \in DOMAIN bookings
              /\ bookings[result'.req].user_id # result'.actor)
             => (result'.code = 403 /\ bookings' = bookings)
          /\ \A id \in DOMAIN bookings :
                bookings'[id].status # bookings[id].status
                => bookings[id].user_id = result'.actor]_vars

\* the admin was refused on a pending booking of a student
C11_Witness ==
    /\ result.op = "cancel_booking"
    /\ result.actor = "admin"
    /\ result.code = 403
    /\ result.req \in DOMAIN bookings
    /\ bookings[result.req].status = "pending"

\* the request passes rules 1 to 4 of admission
PassesRules1To4(item, actor) ==
    /\ item.user_id = actor
    /\ LectureFound(lectures, item.lecture_id)
    /\ \/ lectures[item.lecture_id].teacher_id = item.teacher_id
       \/ HasAssignment(lecture_teachers, item.lecture_id, item.teacher_id)
    /\ WellFormedSlot(item.reserved_date, item.start_time, item.end_time)

\* the stored booking b is pending or confirmed and shares user, lecture and
\* date with the request and overlaps its [start,end)
EarlierBookingOverlaps(b, item) ==
    /\ b.status \in {"pending", "confirmed"}
    /\ b.user_id = item.user_id
    /\ b.lecture_id = item.lecture_id
    /\ b.booking_date = ParseDate(item.reserved_date)
    /\ Overlaps(b.start_time, b.end_time,
                ParseTime(item.start_time), ParseTime(item.end_time))

\* C12: a create_booking request that passes rules 1 to 4 is rejected with
\* the conflict reason and adds nothing when an earlier pending or confirmed
\* booking of the same user, lecture and date overlaps it, and is admitted,
\* adding exactly one booking, when none does.
C12_SecondRequestRejected ==
    [][(/\ result'.op = "create_booking"
        /\ PassesRules1To4(result'.req, result'.actor))
       => IF \E i \in DOMAIN bookings :
                 EarlierBookingOverlaps(bookings[i], result'.req)
          THEN /\ result'.code = 400
               /\ result'.detail = "time_conflict"
               /\ bookings' = bookings
          ELSE /\ result'.code = 200
               /\ bookings' = Append(bookings, NewBooking(result'.req))]_vars

\* the second request was rejected for a confirmed earlier booking whose
\* range overlaps the requested one without being identical to it
C12_Witness ==
    /\ result.op = "create_booking"
    /\ result.detail = "time_conflict"
    /\ \E i \in DOMAIN bookings :
          /\ bookings[i].status = "confirmed"
          /\ EarlierBookingOverlaps(bookings[i], result.req)
          /\ <<bookings[i].start_time, bookings[i].end_time>> #
                <<ParseTime(result.req.start_time), ParseTime(result.req.end_time)>>

\* the last request was remove_teacher_from_lecture naming the primary
\* teacher of an existing lecture
RemovePrimaryRequested ==
    /\ result.op = "remove_teacher_from_lecture"
    /\ LectureFound(lectures, result.req[1])
    /\ result.req[2] = lectures[result.req[1]].teacher_id

\* C13 as stated: removing the primary teacher is answered with the error
\* 'the primary teacher cannot be removed' on every lecture.
C13_Original ==
    RemovePrimaryRequested
    => (result.code = 400 /\ result.detail = "primary_cannot_be_removed")

\* C13: removing the primary teacher fails with a 400 error, 'the primary
\* teacher cannot be removed' on a multi-teacher lecture and 'not a
\* multi-teacher lecture' on a single-teacher one, and the teacher named in
\* the request is still the primary.
C13_RemovePrimaryFails ==
    RemovePrimaryRequested
    => /\ result.code = 400
       /\ result.detail = IF lectures[result.req[1]].is_multi_teacher
                          THEN "primary_cannot_be_removed"
                          ELSE "not_multi_teacher"

\* the primary of a multi-teacher lecture that also holds an assignment row
\* was named in a removal, and the removal was refused
C13_Witness ==
    /\ RemovePrimaryRequested
    /\ lectures[result.req[1]].is_multi_teacher
    /\ HasAssignment(lecture_teachers, result.req[1], result.req[2])
    /\ result.code = 400

\* C14: a change_lecture_teacher call on a multi-teacher lecture succeeds
\* only when the new teacher has an assignment row on the lecture at the
\* time of the call, and without such a row the lecture keeps its primary;
\* no step makes a teacher without a row the primary of a multi-teacher
\* lecture.
C14_PromotionNeedsAssignment ==
    [][/\ (/\ result'.op = "change_lecture_teacher"
           /\ LectureFound(lectures, result'.req[1])
           /\ lectures[result'.req[1]].is_multi_teacher
           /\ ~HasAssignment(lecture_teachers, result'.req[1], result'.req[2]))
          => (result'.code # 200 /\ lectures' = lectures)
       /\ \A l \in DOMAIN lectures :
             (/\ lectures[l].is_multi_teacher
              /\ lectures'[l].teacher_id # lectures[l].teacher_id)
             => HasAssignment(lecture_teachers, l, lectures'[l].teacher_id)]_vars

\* an assigned teacher was promoted on a multi-teacher lecture
C14_Witness ==
    /\ result.op = "change_lecture_teacher"
    /\ result.code = 200
    /\ lectures[result.req[1]].is_multi_teacher
    /\ lectures[result.req[1]].teacher_id = result.req[2]

\* C15: a change_lecture_teacher call on a single-teacher lecture succeeds
\* only when the new primary is a user whose role is teacher and who has a
\* teacher profile.
C15_NewPrimaryIsValidTeacher ==
    [][(/\ result'.op = "change_lecture_teacher"
        /\ result'.code = 200
        /\ ~lectures[result'.req[1]].is_multi_teacher)
       => /\ role[result'.req[2]] = "teacher"
          /\ result'.req[2] \in profiles]_vars

\* C16: change_lecture_teacher naming the lecture's current primary teacher
\* is answered with the 'same teacher' error, on single-teacher and
\* multi-teacher lectures alike, and the lecture is unchanged.
C16_SameTeacherRejected ==
    [][(/\ result'.op = "change_lecture_teacher"
        /\ LectureFound(lectures, result'.req[1])
        /\ lectures[result'.req[1]].teacher_id = result'.req[2])
       => /\ result'.code = 400
          /\ result'.detail = "same_teacher"
          /\ lectures' = lectures]_vars

\* C17: a removal of T's assignment row and a promotion of T to primary of
\* the same multi-teacher lecture do not both succeed: when a removal
\* commits, the removed teacher is not the lecture's primary, and when a
\* promotion commits, the promoted teacher still has an assignment row.
C17_RemoveAndPromoteExclude ==
    [][/\ (/\ result'.op = "remove_teacher_from_lecture"
           /\ result'.code = 200)
          => lectures[result'.req[1]].teacher_id # result'.req[2]
       /\ (/\ result'.op = "change_lecture_teacher"
           /\ result'.code = 200
           /\ lectures[result'.req[1]].is_multi_teacher)
          => HasAssignment(lecture_teachers, result'.req[1],
                           result'.req[2])]_vars

\* C18: on a single-teacher lecture, create_schedule and
\* get_lecture_bookings refuse a teacher as forbidden exactly when the
\* teacher is not the lecture's primary, and never refuse an admin as
\* forbidden.
C18_SingleTeacherAuthorization ==
    (/\ result.op \in {"create_schedule", "get_lecture_bookings"}
     /\ LectureFound(lectures, RequestLecture)
     /\ ~lectures[RequestLecture].is_multi_teacher)
    => /\ role[result.actor] = "teacher"
          => (result.code = 403
              <=> lectures[RequestLecture].teacher_id # result.actor)
       /\ role[result.actor] = "admin" => result.code # 403

\* a teacher with a profile who is not the primary was refused the booking
\* list of a single-teacher lecture
C18_Witness ==
    /\ result.op = "get_lecture_bookings"
    /\ result.actor = "t2"
    /\ result.code = 403
    /\ LectureFound(lectures, result.req)
    /\ ~lectures[result.req].is_multi_teacher

\* the teacher named in the request is the primary teacher of the request's
\* lecture or has an assignment row on it
TeacherOfLecture(item) ==
    /\ LectureFound(lectures, item.lecture_id)
    /\ \/ lectures[item.lecture_id].teacher_id = item.teacher_id
       \/ \E i \in DOMAIN lecture_teachers :
             /\ lecture_teachers[i].lecture_id = item.lecture_id
             /\ lecture_teachers[i].teacher_id = item.teacher_id

\* C19: create_booking adds a booking only when the teacher_id of the request
\* is, at that time, the lecture's primary teacher or a teacher with an
\* assignment row on the lecture; a request naming any other teacher is
\* rejected and adds no booking.
C19_BookingTeacherValid ==
    [][result'.op = "create_booking" =>
          /\ bookings' # bookings => TeacherOfLecture(result'.req)
          /\ ~TeacherOfLecture(result'.req)
             => (result'.code = 400 /\ bookings' = bookings)]_vars

\* a booking was admitted with an assigned teacher who is not the primary
C19_Witness ==
    /\ result.op = "create_booking"
    /\ result.code = 200
    /\ lectures[result.req.lecture_id].teacher_id # result.req.teacher_id
    /\ HasAssignment(lecture_teachers, result.req.lecture_id,
                     result.req.teacher_id)

\* the request's date and times parse and its start is not before its end
StartNotBeforeEnd(data) ==
    /\ ParseDate(data.date) # ValueError
    /\ ParseTime(data.start) # ValueError
    /\ ParseTime(data.end) # ValueError
    /\ ParseTime(data.start) >= ParseTime(data.end)

\* the answers of the role, lecture and teacher checks that precede the
\* parsing of the date and times in create_schedule
EarlierScheduleErrors ==
    {"role_not_permitted", "lecture_not_found", "not_own_lecture",
     "teacher_id_not_self", "teacher_not_found", "teacher_profile_missing"}

\* C20: a create_schedule request whose start is not strictly before its end
\* adds no schedule and, once past the role, lecture and teacher checks, is
\* answered with the start-before-end validation error, never with the
\* answer of the conflict lookup.
C20_StartBeforeEndChecked ==
    [][(/\ result'.op = "create_schedule"
        /\ StartNotBeforeEnd(result'.req))
       => /\ schedules' = schedules
          /\ result'.code # 200
          /\ result'.detail # "schedule_overlap"
          /\ result'.detail \notin EarlierScheduleErrors
             => (result'.code = 400
                 /\ result'.detail = "start_not_before_end")]_vars

\* a request with start = end inside a stored schedule of the same lecture
\* and date was answered with the start-before-end error
C20_Witness ==
    /\ result.op = "create_schedule"
    /\ result.detail = "start_not_before_end"
    /\ \E i \in DOMAIN schedules :
          /\ schedules[i].lecture_id = result.req.lecture_id
          /\ schedules[i].booking_date = ParseDate(result.req.date)
          /\ ~schedules[i].is_expired
          /\ schedules[i].start_time < ParseTime(result.req.start)
          /\ ParseTime(result.req.end) < schedules[i].end_time

-----------------------------------------------------------------------------
(* Properties of lecture creation, of the overlap tests and of the frame   *)
(* of the operations                                                       *)

C22_FilterIsOverlap ==
    (/\ result.op = "conflict_filter"
     /\ result.req[1] < result.req[2]
     /\ result.req[3] < result.req[4])
    => (result.detail = "conflict"
        <=> (result.req[1] < result.req[4] /\ result.req[3] < result.req[2]))

\* the filter reported a conflict for a candidate that strictly contains the
\* stored interval
C22_Witness ==
    /\ result.op = "conflict_filter"
    /\ result.detail = "conflict"
    /\ result.req[3] < result.req[1]
    /\ result.req[1] < result.req[2]
    /\ result.req[2] < result.req[4]

\* the test named by the last result, applied to stored [es,ee) and
\* candidate [s,e)
TestReports(es, ee, s, e) ==
    IF result.op = "conflict_filter"
    THEN OverlapFilter(StoredInterval(es, ee), s, e)
    ELSE ScheduleOverlaps(StoredInterval(es, ee), s, e)

\* C25: on intervals A and B with start < end, the booking conflict filter
\* and the schedule overlap test each give the same answer for candidate B
\* against stored A as for candidate A against stored B, and report a
\* conflict for A against A.
C25_SymmetricReflexive ==
    (/\ result.op \in {"conflict_filter", "schedule_overlap_test"}
     /\ result.req[1] < result.req[2]
     /\ result.req[3] < result.req[4])
    => /\ result.detail = "conflict"
          <=> TestReports(result.req[3], result.req[4],
                          result.req[1], result.req[2])
       /\ (result.req[1] = result.req[3] /\ result.req[2] = result.req[4])
          => result.detail = "conflict"

\* the schedule test was applied to a non-degenerate interval against itself
C25_Witness ==
    /\ result.op = "schedule_overlap_test"
    /\ result.req[1] < result.req[2]
    /\ result.req[1] = result.req[3]
    /\ result.req[2] = result.req[4]
    /\ result.detail = "conflict"

\* the reference decision: some non-expired schedule of the candidate's
\* lecture and date overlaps the candidate
HasConflict(scheds, data) ==
    \E i \in DOMAIN scheds :
        /\ scheds[i].lecture_id = data.lecture_id
        /\ scheds[i].booking_date = ParseDate(data.date)
        /\ ~scheds[i].is_expired
        /\ Overlaps(scheds[i].start_time, scheds[i].end_time,
                    ParseTime(data.start), ParseTime(data.end))

\* C23: a create_schedule request that passes the permission, format, order
\* and date checks is rejected with the overlap error exactly when some
\* non-expired schedule of the same lecture and date overlaps it, and is
\* admitted otherwise.
C23_ConflictDecisionIsHasConflict ==
    [][(/\ result'.op = "create_schedule"
        /\ result'.detail \in {"ok", "schedule_overlap"})
       => (result'.detail = "schedule_overlap"
           <=> HasConflict(schedules, result'.req))]_vars

\* the stored row (a booking or a schedule) and the candidate [s,e) overlap
\* without being the same interval
PartlyOverlaps(row, s, e) ==
    /\ Overlaps(row.start_time, row.end_time, s, e)
    /\ <<row.start_time, row.end_time>> # <<s, e>>

\* the pending or confirmed bookings of the candidate's user, lecture and date
OwnActiveBookings(item) ==
    {i \in DOMAIN bookings :
        /\ bookings[i].status \in {"pending", "confirmed"}
        /\ bookings[i].user_id = item.user_id
        /\ bookings[i].lecture_id = item.lecture_id
        /\ bookings[i].booking_date = ParseDate(item.reserved_date)}

\* the non-expired schedules of the candidate's lecture and date
ActiveSchedules(data) ==
    {i \in DOMAIN schedules :
        /\ ~schedules[i].is_expired
        /\ schedules[i].lecture_id = data.lecture_id
        /\ schedules[i].booking_date = ParseDate(data.date)}

\* C24: a candidate that passes the other checks is admitted by
\* create_booking (create_schedule) when every stored active booking of the
\* user (active schedule of the lecture) on the date only touches it or lies
\* apart from it, and is rejected when one of them partly overlaps it.
C24_TouchingAdmittedOverlapRejected ==
    [][/\ (/\ result'.op = "create_booking"
           /\ result'.detail \in {"ok", "time_conflict"})
          => LET item == result'.req
                 s == ParseTime(item.start_time)
                 e == ParseTime(item.end_time)
             IN  /\ (\A i \in OwnActiveBookings(item) :
                        ~Overlaps(bookings[i].start_time,
                                  bookings[i].end_time, s, e))
                    => result'.detail = "ok"
                 /\ (\E i \in OwnActiveBookings(item) :
                        PartlyOverlaps(bookings[i], s, e))
                    => result'.detail = "time_conflict"
       /\ (/\ result'.op = "create_schedule"
           /\ result'.detail \in {"ok", "schedule_overlap"})
          => LET data == result'.req
                 s == ParseTime(data.start)
                 e == ParseTime(data.end)
             IN  /\ (\A i \in ActiveSchedules(data) :
                        ~Overlaps(schedules[i].start_time,
                                  schedules[i].end_time, s, e))
                    => result'.detail = "ok"
                 /\ (\E i \in ActiveSchedules(data) :
                        PartlyOverlaps(schedules[i], s, e))
                    => result'.detail = "schedule_overlap"]_vars

\* C26: every assignment row belongs to a multi-teacher lecture, so on a
\* single-teacher lecture the booking-list permission and the teacher rule of
\* booking admission accept a teacher only when that teacher is the primary.
C26_AssignmentsOnlyOnMultiTeacher ==
    /\ \A i \in DOMAIN lecture_teachers :
          /\ lecture_teachers[i].lecture_id \in DOMAIN lectures
          /\ lectures[lecture_teachers[i].lecture_id].is_multi_teacher
    /\ (/\ result.op = "get_lecture_bookings"
        /\ role[result.actor] = "teacher"
        /\ LectureFound(lectures, result.req)
        /\ ~lectures[result.req].is_multi_teacher
        /\ lectures[result.req].teacher_id # result.actor)
       => result.code = 403
    /\ (/\ result.op = "create_booking"
        /\ LectureFound(lectures, result.req.lecture_id)
        /\ ~lectures[result.req.lecture_id].is_multi_teacher
        /\ lectures[result.req.lecture_id].teacher_id # result.req.teacher_id)
       => (result.code = 400 /\ result.detail = "teacher_mismatch")

\* t2, assigned to the multi-teacher lecture 2, was refused the booking list
\* of the single-teacher lecture 1
C26_Witness ==
    /\ HasAssignment(lecture_teachers, 2, "t2")
    /\ result.op = "get_lecture_bookings"
    /\ result.actor = "t2"
    /\ result.req = 1
    /\ ~lectures[1].is_multi_teacher
    /\ result.code = 403

\* C27: a lecture, once created, stays; its is_multi_teacher flag never
\* changes, and its primary teacher changes only in a step in which
\* change_lecture_teacher succeeds for that lecture and that teacher;
\* add_teacher_to_lecture, remove_teacher_from_lecture, create_schedule,
\* create_booking and cancel_booking leave the lectures table as it was.
C27_PrimaryAndFlagFrame ==
    [][/\ \A l \in DOMAIN lectures :
             /\ l \in DOMAIN lectures'
             /\ lectures'[l].is_multi_teacher = lectures[l].is_multi_teacher
             /\ lectures'[l].teacher_id # lectures[l].teacher_id
                   => /\ result'.op = "change_lecture_teacher"
                      /\ result'.code = 200
                      /\ result'.req = <<l, lectures'[l].teacher_id>>
       /\ result'.op \in {"add_teacher_to_lecture",
                          "remove_teacher_from_lecture", "create_schedule",
                          "create_booking", "cancel_booking"}
             => lectures' = lectures]_vars

\* change_lecture_teacher has just made t2, assigned before, the primary
\* teacher of a multi-teacher lecture
C27_Witness ==
    /\ result.op = "change_lecture_teacher"
    /\ result.code = 200
    /\ result.req[2] = "t2"
    /\ lectures[result.req[1]].teacher_id = "t2"
    /\ lectures[result.req[1]].is_multi_teacher
    /\ HasAssignment(lecture_teachers, result.req[1], "t2")

\* the rows of the bookings table that belong to one user
RowsOfUser(bks, user_id) == SelectSeq(bks, LAMBDA b : b.user_id = user_id)

\* C28: the answer of create_booking to user U is the answer it would give
\* if the bookings table held U's own rows only, so the bookings of other
\* users have no influence on it (and two users can hold pending bookings of
\* the same lecture, date and interval: the witness).
C28_OtherUsersBookingsIgnored ==
    [][result'.op = "create_booking" =>
          LET own == RowsOfUser(bookings, result'.req.user_id)
              r == CreateBookingResponse(
                       ValidateBookingData(own, lectures, lecture_teachers,
                                           result'.req, result'.actor))
          IN  /\ result'.code = r.code
              /\ result'.detail = r.detail
              /\ (r.code = 200) = (Len(bookings') = Len(bookings) + 1)]_vars

\* s1 and s2 hold pending bookings of the same lecture, date and interval,
\* the second of them just admitted
C28_Witness ==
    /\ result.op = "create_booking"
    /\ result.code = 200
    /\ Len(bookings) = 2
    /\ bookings[1].user_id # bookings[2].user_id
    /\ bookings[1].status = "pending"
    /\ bookings[2].status = "pending"
    /\ bookings[1].lecture_id = bookings[2].lecture_id
    /\ bookings[1].booking_date = bookings[2].booking_date
    /\ bookings[1].start_time = bookings[2].start_time
    /\ bookings[1].end_time = bookings[2].end_time

\* some active schedule of the request's lecture and date contains its interval
CoveredBySchedule(item) ==
    \E i \in DOMAIN schedules :
        /\ ~schedules[i].is_expired
        /\ schedules[i].lecture_id = item.lecture_id
        /\ schedules[i].booking_date = ParseDate(item.reserved_date)
        /\ schedules[i].start_time <= ParseTime(item.start_time)
        /\ schedules[i].end_time >= ParseTime(item.end_time)

\* C29: create_booking admits a request exactly when it passes rules 1 to 4
\* and no pending or confirmed booking of the user overlaps it, a condition
\* that mentions no schedule; so a request is admitted whether or not an
\* active schedule covers it, and the step leaves the schedules as they were.
C29_AdmissionIgnoresSchedules ==
    [][result'.op = "create_booking" =>
          /\ (result'.code = 200) =
                (/\ PassesRules1To4(result'.req, result'.actor)
                 /\ ~\E i \in DOMAIN bookings :
                        EarlierBookingOverlaps(bookings[i], result'.req))
          /\ schedules' = schedules]_vars

\* a booking was admitted on a date on which the lecture has a schedule, and
\* no schedule of the lecture contains the booked interval
C29_Witness ==
    /\ result.op = "create_booking"
    /\ result.code = 200
    /\ bookings # <<>>
    /\ \E i \in DOMAIN schedules :
          /\ schedules[i].lecture_id = result.req.lecture_id
          /\ schedules[i].booking_date = ParseDate(result.req.reserved_date)
    /\ ~CoveredBySchedule(result.req)

\* the assignment rows of one lecture and teacher
RowsOfPair(lts, lecture_id, teacher_id) ==
    {i \in DOMAIN lts : /\ lts[i].lecture_id = lecture_id
                         /\ lts[i].teacher_id = teacher_id}

\* C30: before and after every step each (lecture, teacher) pair has at most
\* one assignment row; add_teacher_to_lecture for a teacher who already has a
\* row on the lecture is rejected and leaves the rows as they were; after a
\* successful remove_teacher_from_lecture the teacher has no row on that
\* lecture and the other rows are kept.
C30_OneRowPerPair ==
    [][/\ \A i, j \in DOMAIN lecture_teachers :
             lecture_teachers[i] = lecture_teachers[j] => i = j
       /\ \A i, j \in DOMAIN lecture_teachers' :
             lecture_teachers'[i] = lecture_teachers'[j] => i = j
       /\ (/\ result'.op = "add_teacher_to_lecture"
           /\ HasAssignment(lecture_teachers, result'.req[1], result'.req[2]))
          => /\ result'.code = 400
             /\ lecture_teachers' = lecture_teachers
       /\ (/\ result'.op = "remove_teacher_from_lecture"
           /\ result'.code = 200)
          => /\ RowsOfPair(lecture_teachers, result'.req[1], result'.req[2]) # {}
             /\ RowsOfPair(lecture_teachers', result'.req[1], result'.req[2]) = {}
             /\ Len(lecture_teachers') = Len(lecture_teachers) - 1]_vars

\* a second add of t2 to lecture 2 was rejected while t2 and t3 each have
\* their one row there
C30_Witness ==
    /\ result.op = "add_teacher_to_lecture"
    /\ result.req = <<2, "t2">>
    /\ result.code = 400
    /\ result.detail = "already_assigned"
    /\ Cardinality(RowsOfPair(lecture_teachers, 2, "t2")) = 1
    /\ Cardinality(RowsOfPair(lecture_teachers, 2, "t3")) = 1

=============================================================================
